---- MODULE Spec2Model ----
(***************************************************************************)
(* Model of gantt_generic.py: the data normalisation pipeline (parse_date, *)
(* find_column, load_data), the colour assignment and bar layout of        *)
(* generate_svg and gen_pptx, the embedding of user text in the generated  *)
(* scripts (gen_pptx, gen_docx) and the external step run_node / main.     *)
(*                                                                         *)
(* Texts whose characters matter (dates, user text embedded in scripts)    *)
(* are sequences of one-character strings.                                 *)
(***************************************************************************)
EXTENDS Integers, Sequences, FiniteSets, TLC

VARIABLES
    pc,        \* position of the program in the scenario being run
    date_val,  \* parse_date: the raw cell handed to parse_date
    cal,       \* parse_date: how date_val was written ([d, fmt, pad]) or Nothing
    parsed,    \* parse_date: the value returned
    df,        \* load_data: the raw table read from the uploaded file
    data,      \* the TaskSet: Some(rows), or Nothing where the code holds None
    err,       \* load_data: the error returned, Some(message) or Nothing
    order,     \* load_data: data.index after sort_values, before reset_index
    svg,       \* the layout generate_svg drew for data, or Nothing
    svg_cat,   \* main: the layout of each category's rows (line 368), or Nothing
    pptx,      \* the slides gen_pptx scripted for data, or Nothing
    user,      \* the user's texts [title, categorie, tache] of one task
    js,        \* the string literals of the script generated from user, or Nothing
    clicked,   \* main: the export button pressed in this run ("pptx", "docx", "none")
    installed, \* whether a node executable is on the PATH
    proc,      \* the node process: [state, rc, file]
    elapsed,   \* seconds since subprocess.run started the process
    ret,       \* what run_node returned: Some(bytes) or Nothing (None)
    raised,    \* an exception left run_node
    shown      \* the widgets main has put on the page

parseVars == <<date_val, cal, parsed>>
loadVars  == <<df, data, err, order>>
drawVars  == <<svg, svg_cat, pptx>>
textVars  == <<user, js>>
nodeVars  == <<clicked, installed, proc, elapsed, ret, raised, shown>>

vars == <<pc, date_val, cal, parsed, df, data, err, order, svg, svg_cat, pptx, user, js,
          clicked, installed, proc, elapsed, ret, raised, shown>>

(***************************************************************************)
(* Optional values: Python's None against a value.                         *)
(***************************************************************************)
Nothing == [some |-> FALSE]
Some(v) == [some |-> TRUE, val |-> v]

Max(a, b) == IF a >= b THEN a ELSE b
Min(a, b) == IF a <= b THEN a ELSE b

(***************************************************************************)
(* Bounds of the model.                                                    *)
(***************************************************************************)
FirstYear == 2024
NumYears  == 2

(***************************************************************************)
(* Calendar dates (datetime.datetime with a zero time of day).             *)
(***************************************************************************)
IsLeap(y) == (y % 4 = 0) /\ ((y % 100 # 0) \/ (y % 400 = 0))

DaysInMonth(y, m) ==
    IF m = 2 THEN (IF IsLeap(y) THEN 29 ELSE 28)
    ELSE IF m \in {4, 6, 9, 11} THEN 30 ELSE 31

DaysBeforeYear(y) ==
    LET p == y - 1 IN p * 365 + (p \div 4) - (p \div 100) + (p \div 400)

RECURSIVE DaysBeforeMonth(_, _)
DaysBeforeMonth(y, m) ==
    IF m = 1 THEN 0 ELSE DaysBeforeMonth(y, m - 1) + DaysInMonth(y, m - 1)

\* datetime.toordinal(): the day number, so that (a - b).days = Ordinal(a) - Ordinal(b)
Ordinal(dt) == DaysBeforeYear(dt.y) + DaysBeforeMonth(dt.y, dt.m) + dt.d

Date(y, m, d) == [y |-> y, m |-> m, d |-> d]

Years == FirstYear .. (FirstYear + NumYears - 1)

Dates == { dt \in [y : Years, m : 1..12, d : 1..31] : dt.d <= DaysInMonth(dt.y, dt.m) }

(***************************************************************************)
(* Characters and digits.                                                  *)
(***************************************************************************)
Digits == <<"0", "1", "2", "3", "4", "5", "6", "7", "8", "9">>

DigitChars == { Digits[i] : i \in 1..10 }

DigitVal(c) == (CHOOSE i \in 1..10 : Digits[i] = c) - 1

IsDigit(t, p) == p >= 1 /\ p <= Len(t) /\ t[p] \in DigitChars

Whitespace == {" "}

\* str.strip(): drop the leading and the trailing whitespace
RECURSIVE LStrip(_)
LStrip(t) == IF t # <<>> /\ Head(t) \in Whitespace THEN LStrip(Tail(t)) ELSE t

RECURSIVE RStrip(_)
RStrip(t) ==
    IF t # <<>> /\ t[Len(t)] \in Whitespace THEN RStrip(SubSeq(t, 1, Len(t) - 1)) ELSE t

Strip(t) == RStrip(LStrip(t))

(***************************************************************************)
(* strftime / strptime for the directives %Y, %m, %d and literal           *)
(* characters.  A format is a sequence of directives and literals.         *)
(***************************************************************************)
FmtYmdDash  == <<"%Y", "-", "%m", "-", "%d">>
FmtDmySlash == <<"%d", "/", "%m", "/", "%Y">>
FmtDmyDash  == <<"%d", "-", "%m", "-", "%Y">>
FmtYmdSlash == <<"%Y", "/", "%m", "/", "%d">>
FmtDmyDot   == <<"%d", ".", "%m", ".", "%Y">>
FmtYmdDot   == <<"%Y", ".", "%m", ".", "%d">>

\* the list parse_date tries, in order (line 35)
ParseFormats == <<FmtYmdDash, FmtDmySlash, FmtDmyDash, FmtYmdSlash, FmtDmyDot>>

\* the six formats the specification names (section 4.1)
SpecFormats == <<FmtYmdDash, FmtDmySlash, FmtDmyDash, FmtYmdSlash, FmtDmyDot, FmtYmdDot>>

TwoDigits(n) == <<Digits[(n \div 10) + 1], Digits[(n % 10) + 1]>>

FourDigits(n) == TwoDigits(n \div 100) \o TwoDigits(n % 100)

\* datetime.strftime(fmt): zero-padded fields
RECURSIVE strftime(_, _)
strftime(dt, fmt) ==
    IF fmt = <<>> THEN <<>>
    ELSE LET piece == CASE Head(fmt) = "%Y" -> FourDigits(dt.y)
                        [] Head(fmt) = "%m" -> TwoDigits(dt.m)
                        [] Head(fmt) = "%d" -> TwoDigits(dt.d)
                        [] OTHER -> <<Head(fmt)>>
         IN piece \o strftime(dt, Tail(fmt))

\* The alternatives of a directive's regular expression at position p of t,
\* in the order the expression lists them, each as [len, val]:
\*   %Y  \d\d\d\d
\*   %m  1[0-2] | 0[1-9] | [1-9]
\*   %d  3[0-1] | [1-2]\d | 0[1-9] | [1-9] | " "[1-9]
Num2(t, p) == 10 * DigitVal(t[p]) + DigitVal(t[p + 1])

Candidates(t, p, dir) ==
    CASE dir = "%Y" ->
           IF IsDigit(t, p) /\ IsDigit(t, p + 1) /\ IsDigit(t, p + 2) /\ IsDigit(t, p + 3)
           THEN << [len |-> 4, val |-> 100 * Num2(t, p) + Num2(t, p + 2)] >>
           ELSE <<>>
      [] dir = "%m" ->
           (IF IsDigit(t, p) /\ IsDigit(t, p + 1) /\ Num2(t, p) \in 1..12
            THEN << [len |-> 2, val |-> Num2(t, p)] >> ELSE <<>>)
           \o
           (IF IsDigit(t, p) /\ DigitVal(t[p]) \in 1..9
            THEN << [len |-> 1, val |-> DigitVal(t[p])] >> ELSE <<>>)
      [] dir = "%d" ->
           (IF IsDigit(t, p) /\ IsDigit(t, p + 1) /\ Num2(t, p) \in 1..31
            THEN << [len |-> 2, val |-> Num2(t, p)] >> ELSE <<>>)
           \o
           (IF IsDigit(t, p) /\ DigitVal(t[p]) \in 1..9
            THEN << [len |-> 1, val |-> DigitVal(t[p])] >> ELSE <<>>)
           \o
           (IF p + 1 <= Len(t) /\ t[p] = " " /\ IsDigit(t, p + 1) /\ DigitVal(t[p + 1]) \in 1..9
            THEN << [len |-> 2, val |-> DigitVal(t[p + 1])] >> ELSE <<>>)

\* re.match of the format's expression on t from position p: the first way to
\* match the whole format (backtracking over the alternatives), as
\* Some([end, y, m, d]) or Nothing.
RECURSIVE ReMatch(_, _, _, _), TryCandidates(_, _, _, _, _)
ReMatch(t, p, fmt, acc) ==
    IF fmt = <<>> THEN Some([end |-> p, y |-> acc.y, m |-> acc.m, d |-> acc.d])
    ELSE IF Head(fmt) \in {"%Y", "%m", "%d"}
         THEN TryCandidates(t, p, fmt, acc, Candidates(t, p, Head(fmt)))
         ELSE IF p <= Len(t) /\ t[p] = Head(fmt)
              THEN ReMatch(t, p + 1, Tail(fmt), acc)
              ELSE Nothing

TryCandidates(t, p, fmt, acc, cands) ==
    IF cands = <<>> THEN Nothing
    ELSE LET c    == Head(cands)
             acc2 == CASE Head(fmt) = "%Y" -> [acc EXCEPT !.y = c.val]
                       [] Head(fmt) = "%m" -> [acc EXCEPT !.m = c.val]
                       [] Head(fmt) = "%d" -> [acc EXCEPT !.d = c.val]
             r    == ReMatch(t, p + c.len, Tail(fmt), acc2)
         IN IF r.some THEN r ELSE TryCandidates(t, p, fmt, acc, Tail(cands))

\* datetime.strptime(t, fmt): Some(date), or Nothing for ValueError (no match,
\* unconverted data remains, year 0 or a day the month does not have)
strptime(t, fmt) ==
    LET r == ReMatch(t, 1, fmt, [y |-> 0, m |-> 0, d |-> 0])
    IN IF ~r.some THEN Nothing
       ELSE IF r.val.end # Len(t) + 1 THEN Nothing
       ELSE IF r.val.y < 1 \/ r.val.d > DaysInMonth(r.val.y, r.val.m) THEN Nothing
       ELSE Some(Date(r.val.y, r.val.m, r.val.d))

(***************************************************************************)
(* Raw cells: NaN, a datetime, text, or a number.                           *)
(***************************************************************************)
NaN == [type |-> "nan"]
Text(t) == [type |-> "str", text |-> t]
DateTime(dt) == [type |-> "datetime", value |-> dt]
Number(n) == [type |-> "int", value |-> n]

\* the loop of lines 35-37: the first format strptime accepts
RECURSIVE TryFormats(_, _)
TryFormats(t, fmts) ==
    IF fmts = <<>> THEN Nothing
    ELSE LET r == strptime(Strip(t), Head(fmts))
         IN IF r.some THEN r ELSE TryFormats(t, Tail(fmts))

parse_date(v) ==
    IF v.type = "nan" THEN Nothing
    ELSE IF v.type = "datetime" THEN Some(v.value)
    ELSE IF v.type = "str" THEN TryFormats(v.text, ParseFormats)
    ELSE Nothing

(***************************************************************************)
(* The variables of a scenario that is not being run.                      *)
(***************************************************************************)
IdleParse == date_val = NaN /\ cal = Nothing /\ parsed = Nothing
NoProcess == [state |-> "none", rc |-> 0, file |-> Nothing]
IdleNode  == /\ clicked = "none" /\ installed = FALSE /\ proc = NoProcess /\ elapsed = 0
             /\ ret = Nothing /\ raised = FALSE /\ shown = {}
IdleDraw  == svg = Nothing /\ svg_cat = Nothing /\ pptx = Nothing
IdleText  == user = [title |-> <<>>, categorie |-> <<>>, tache |-> <<>>] /\ js = Nothing
IdleLoad  == df = [columns |-> <<>>, rows |-> <<>>] /\ data = Nothing /\ err = Nothing /\ order = <<>>

(***************************************************************************)
(* Scenario "parse": parse_date applied to one raw cell.                   *)
(***************************************************************************)
Pads == {"none", "left", "right", "both"}

Padded(t, pad) ==
    (IF pad \in {"left", "both"} THEN <<" ">> ELSE <<>>) \o t \o
    (IF pad \in {"right", "both"} THEN <<" ", " ">> ELSE <<>>)

Written(w) == Text(Padded(strftime(w.d, SpecFormats[w.fmt]), w.pad))

\* further texts, most of them no date in any format, and cells that are not text
OtherCells ==
    { Text(<<>>), Text(<<"a", "b", "c">>), Text(<<"2", "0", "2", "5">>),
      Text(<<"3", "1", "/", "0", "2", "/", "2", "0", "2", "5">>),
      Text(<<"2", "0", "2", "5", "-", "1", "3", "-", "0", "1">>),
      Text(<<"2", "0", "2", "5", "-", "0", "1", "-", "0", "1", "x">>),
      Text(<<"0", "1", "-", "0", "2", "/", "2", "0", "2", "5">>),
      Text(<<"5", "/", "1", "/", "2", "0", "2", "5">>),
      NaN, Number(20250101), DateTime(Date(2025, 1, 1)) }

InitParse ==
    /\ pc = "parse"
    /\ \/ /\ cal \in { Some(w) : w \in [d : Dates, fmt : 1..Len(SpecFormats), pad : Pads] }
          /\ date_val = Written(cal.val)
       \/ /\ cal = Nothing
          /\ date_val \in OtherCells
    /\ parsed = Nothing
    /\ IdleLoad /\ IdleDraw /\ IdleText /\ IdleNode

ParseDate ==
    /\ pc = "parse"
    /\ parsed' = parse_date(date_val)
    /\ pc' = "parsed"
    /\ UNCHANGED <<date_val, cal>>
    /\ UNCHANGED <<loadVars, drawVars, textVars, nodeVars>>

NextParse == ParseDate

SpecParse == InitParse /\ [][NextParse]_vars

(***************************************************************************)
(* Header names and plain cell strings are atomic; str.lower(), str.strip()*)
(* and the code-point order are given on the strings the model uses.       *)
(***************************************************************************)
\* c.lower().strip() of a header (line 42), n.lower() of a synonym (line 44)
LowerStrip(h) ==
    CASE h = " Category" -> "category"
      [] h = "TASK"      -> "task"
      [] h = "Start "    -> "start"
      [] h = "End"       -> "end"
      [] h = "FIN"       -> "fin"
      [] h = "Team"      -> "team"
      [] h = "Activity"  -> "activity"
      [] h = "Kickoff"   -> "kickoff"
      [] h = "Deadline"  -> "deadline"
      [] OTHER           -> h

\* str.strip() of a name cell (lines 61-62)
StripStr(t) ==
    CASE t = " B" -> "B"
      [] t = " "  -> ""
      [] OTHER    -> t

\* the strings of the categorie column in code-point order
CodePointOrder ==
    <<" B", "A", "B", "C01", "C02", "C03", "C04", "C05", "C06", "C07", "C08", "C09",
      "C10", "C11", "C12", "C13", "C14", "C15", "C16", "C17", "C18", "C19", "C20", "nan">>

Rank(c) == CHOOSE i \in 1..Len(CodePointOrder) : CodePointOrder[i] = c

StrLess(a, b) == Rank(a) < Rank(b)

\* the synonym lists of load_data (lines 52-55)
SynCategorie == <<"catégorie", "categorie", "category", "groupe", "group">>
SynTache     == <<"tâche", "tache", "task", "nom", "name", "activité">>
SynDebut     == <<"début", "debut", "start", "date_debut", "start_date">>
SynFin       == <<"fin", "end", "date_fin", "end_date", "échéance">>

\* the keys of mapping, in insertion order
Fields == <<"categorie", "tache", "debut", "fin">>

\* cols[k] of line 42: a later header with the same normalised name replaces
\* an earlier one
ColsGet(columns, k) ==
    columns[CHOOSE i \in 1..Len(columns) :
              /\ LowerStrip(columns[i]) = k
              /\ \A j \in (i + 1)..Len(columns) : LowerStrip(columns[j]) # k]

ColsHas(columns, k) == \E i \in 1..Len(columns) : LowerStrip(columns[i]) = k

RECURSIVE find_column(_, _)
find_column(columns, names) ==
    IF names = <<>> THEN Nothing
    ELSE IF ColsHas(columns, LowerStrip(Head(names)))
         THEN Some(ColsGet(columns, LowerStrip(Head(names))))
         ELSE find_column(columns, Tail(names))

\* df[name]: the position of the column called name
ColumnOf(columns, name) == CHOOSE i \in 1..Len(columns) : columns[i] = name

\* astype(str) of a name cell: NaN becomes the text "nan"
AsStr(cell) == IF cell.type = "nan" THEN "nan" ELSE cell.text

\* ', '.join(missing)
MissingFields(mapping) == SelectSeq(Fields, LAMBDA k : ~mapping[k].some \/ mapping[k].val = "")

\* sort_values(['categorie', 'debut']): a stable sort (a row moves in front of
\* the rows whose key is strictly greater, never of a row with an equal key)
KeyLess(a, b) ==
    \/ StrLess(a.categorie, b.categorie)
    \/ a.categorie = b.categorie /\ Ordinal(a.debut) < Ordinal(b.debut)

RECURSIVE InsertSorted(_, _)
InsertSorted(r, sorted) ==
    IF sorted = <<>> THEN <<r>>
    ELSE IF KeyLess(r, Head(sorted)) THEN <<r>> \o sorted
    ELSE <<Head(sorted)>> \o InsertSorted(r, Tail(sorted))

RECURSIVE sort_values_first(_)
sort_values_first(rows) ==
    IF rows = <<>> THEN <<>>
    ELSE LET rest == sort_values_first(SubSeq(rows, 1, Len(rows) - 1))
             r    == rows[Len(rows)]
         IN IF rest # <<>> /\ ~KeyLess(Head(rest), r) /\ ~KeyLess(r, Head(rest))
            THEN <<r>> \o rest
            ELSE InsertSorted(r, rest)

RECURSIVE sort_values(_)
sort_values(rows) ==
    IF rows = <<>> THEN <<>>
    ELSE InsertSorted(rows[Len(rows)], sort_values(SubSeq(rows, 1, Len(rows) - 1)))

\* the messages load_data returns
MsgMissing(missing) == [text |-> "Colonnes manquantes: ", args |-> missing]
MsgNoData == [text |-> "Aucune donnée valide", args |-> <<>>]
MsgNoDtAccessor == [text |-> "Can only use .dt accessor with datetimelike values", args |-> <<>>]

\* the cells of the date columns: 2025-01-05, 01/01/2025 (day first) and a
\* text that is no date
TxtJan5 == <<"2", "0", "2", "5", "-", "0", "1", "-", "0", "5">>
TxtJan1 == <<"0", "1", "/", "0", "1", "/", "2", "0", "2", "5">>
TxtBad  == <<"a", "b", "c">>

DateCells == {Text(TxtJan5), Text(TxtJan1), Text(TxtBad)}

\* Series.apply(parse_date) (lines 63-64): parse_date on each cell of the
\* column, tabulated over the cells a date column can hold
ApplyParseDate == [c \in DateCells |-> parse_date(c)]

\* the row of the frame built at lines 60-65, with its index label i
BuildRow(columns, mapping, row, i) ==
    [ i         |-> i,
      categorie |-> StripStr(AsStr(row[ColumnOf(columns, mapping.categorie.val)])),
      tache     |-> StripStr(AsStr(row[ColumnOf(columns, mapping.tache.val)])),
      debut     |-> ApplyParseDate[row[ColumnOf(columns, mapping.debut.val)]],
      fin       |-> ApplyParseDate[row[ColumnOf(columns, mapping.fin.val)]] ]

\* line 66
dropna(rows) == SelectSeq(rows, LAMBDA r : r.debut.some /\ r.fin.some)

\* line 67
KeepNamed(rows) == SelectSeq(rows, LAMBDA r : r.tache # "" /\ r.tache # "nan")

\* line 68, for a row whose dates are both present
WithDuration(r) ==
    [ i           |-> r.i,
      categorie   |-> r.categorie,
      tache       |-> r.tache,
      debut       |-> r.debut.val,
      fin         |-> r.fin.val,
      duree_jours |-> Ordinal(r.fin.val) - Ordinal(r.debut.val) + 1 ]

\* reset_index(drop=True): the index labels are dropped
DropIndex(r) ==
    [ categorie   |-> r.categorie,
      tache       |-> r.tache,
      debut       |-> r.debut,
      fin         |-> r.fin,
      duree_jours |-> r.duree_jours ]

\* A column that apply(parse_date) fills with None only keeps dtype object;
\* one with at least one datetime becomes datetime64 (None read as NaT).  The
\* difference of two columns is a timedelta column, on which .dt exists, only
\* when both are datetime64; otherwise .dt raises AttributeError.
IsDatetime64(built, col) == \E k \in 1..Len(built) : built[k][col].some

\* load_data after the file is read: [data, err, order].  Each step of the
\* function body takes the frame of the step before it as its argument.
load_data(table) ==
    LET \* lines 69-72, on the frame sorted at line 69 (index labels kept)
        Finish(sorted) ==
            LET final  == [k \in 1..Len(sorted) |-> DropIndex(sorted[k])]
                labels == [k \in 1..Len(sorted) |-> sorted[k].i]
            IN IF Len(sorted) > 0
               THEN [data |-> Some(final), err |-> Nothing, order |-> labels]
               ELSE [data |-> Nothing, err |-> Some(MsgNoData), order |-> <<>>]
        \* line 68, on the frame filtered at lines 66-67
        Duration(kept) == [k \in 1..Len(kept) |-> WithDuration(kept[k])]
        \* lines 66-72, on the frame built at lines 60-65
        Clean(built) ==
            IF ~(IsDatetime64(built, "debut") /\ IsDatetime64(built, "fin"))
            THEN [data |-> Nothing, err |-> Some(MsgNoDtAccessor), order |-> <<>>]
            ELSE Finish(sort_values(Duration(KeepNamed(dropna(built)))))
        \* lines 57-72, on the mapping of lines 51-56
        Load(mapping, missing) ==
            IF missing # <<>>
            THEN [data |-> Nothing, err |-> Some(MsgMissing(missing)), order |-> <<>>]
            ELSE Clean([k \in 1..Len(table.rows) |->
                           BuildRow(table.columns, mapping, table.rows[k], k)])
        Resolve(mapping) == Load(mapping, MissingFields(mapping))
    IN Resolve([ categorie |-> find_column(table.columns, SynCategorie),
                 tache     |-> find_column(table.columns, SynTache),
                 debut     |-> find_column(table.columns, SynDebut),
                 fin       |-> find_column(table.columns, SynFin) ])

(***************************************************************************)
(* Scenario "load": main hands an uploaded table to load_data.             *)
(***************************************************************************)
MaxRows == 2

HeaderLists ==
    { <<"catégorie", "tâche", "début", "fin">>,
      <<" Category", "TASK", "Start ", "End">>,
      <<"Team", "Activity", "Kickoff", "Deadline">>,
      <<"groupe", "nom", "start_date", "notes">>,
      <<"group", "name", "debut", "FIN", "fin">> }

CategoryCells == {Text("A"), Text(" B")}
TaskCells     == {Text("T"), Text(" "), NaN}

RawRows(n) ==
    { <<c, t, d, f>> \o [k \in 1..(n - 4) |-> f] :
        c \in CategoryCells, t \in TaskCells, d \in DateCells, f \in DateCells }

RawTables(headers, maxRows) ==
    UNION { [columns : {h}, rows : UNION { [1..n -> RawRows(Len(h))] : n \in 0..maxRows }]
            : h \in headers }

InitLoad ==
    /\ pc = "upload"
    /\ df \in RawTables({<<" Category", "TASK", "Start ", "End">>}, MaxRows)
    /\ data = Nothing /\ err = Nothing /\ order = <<>>
    /\ IdleParse /\ IdleDraw /\ IdleText /\ IdleNode

\* the same scenario over every header list, with tables of at most one row
InitResolve ==
    /\ pc = "upload"
    /\ df \in RawTables(HeaderLists, 1)
    /\ data = Nothing /\ err = Nothing /\ order = <<>>
    /\ IdleParse /\ IdleDraw /\ IdleText /\ IdleNode

LoadData ==
    /\ pc = "upload"
    /\ LET r == load_data(df)
       IN data' = r.data /\ err' = r.err /\ order' = r.order
    /\ pc' = "loaded"
    /\ UNCHANGED df
    /\ UNCHANGED <<parseVars, drawVars, textVars, nodeVars>>

NextLoad == LoadData

SpecLoad == InitLoad /\ [][NextLoad]_vars

SpecResolve == InitResolve /\ [][NextLoad]_vars

(***************************************************************************)
(* colors, generate_svg and gen_pptx.  Lengths that the code computes as   *)
(* floats are kept as exact fractions: a bar's bx and bw are the numerators*)
(* bxN and bwN over the denominator the record names.                      *)
(***************************************************************************)
PaletteHex == <<"4e79a7", "f28e2b", "e15759", "76b7b2", "59a14f",
                "edc948", "b07aa1", "ff9da7", "9c755f", "bab0ac">>

\* a colour of the palette: "#" followed by six hexadecimal digits
Hash(hex) == [hash |-> TRUE, hex |-> hex]

\* col.replace("#", "") (line 194)
NoHash(col) == [hash |-> FALSE, hex |-> col.hex]

\* colors(n), written from index 1: entry i is palette[(i - 1) % len(palette)]
colors_short_cycle(n) ==
    [i \in 1..n |-> Hash(PaletteHex[((i - 1) % (Len(PaletteHex) - 1)) + 1])]

colors(n) == [i \in 1..n |-> Hash(PaletteHex[((i - 1) % Len(PaletteHex)) + 1])]

\* data['categorie'].unique(): the distinct categories in first-seen order
RECURSIVE unique(_)
unique(cs) ==
    IF cs = <<>> THEN <<>>
    ELSE LET u == unique(SubSeq(cs, 1, Len(cs) - 1))
             c == cs[Len(cs)]
         IN IF \E i \in 1..Len(u) : u[i] = c THEN u ELSE Append(u, c)

Categories(rows) == unique([k \in 1..Len(rows) |-> rows[k].categorie])

\* cmap[c] for a category of cats
Lookup(cats, cols, c) == cols[CHOOSE i \in 1..Len(cats) : cats[i] = c]

RECURSIVE MinOrdinal(_, _), MaxOrdinal(_, _), MaxNameLen(_)
MinOrdinal(rows, f) ==
    IF Len(rows) = 1 THEN Ordinal(rows[1][f])
    ELSE Min(Ordinal(rows[1][f]), MinOrdinal(Tail(rows), f))

MaxOrdinal(rows, f) ==
    IF Len(rows) = 1 THEN Ordinal(rows[1][f])
    ELSE Max(Ordinal(rows[1][f]), MaxOrdinal(Tail(rows), f))

MaxNameLen(rows) ==
    IF Len(rows) = 1 THEN Len(rows[1].tache)
    ELSE Max(Len(rows[1].tache), MaxNameLen(Tail(rows)))

\* the constants of generate_svg (lines 86-93, 125)
mr == 50
mt == 100
mb == 80
lh == 18
bh == 24
rs == 12
cw == 800
MinBarWidth == 8

\* dr of lines 96-97 and 195-196: the span of the set in days, at least 1
DateRange_no_floor(rows) == MaxOrdinal(rows, "fin") - MinOrdinal(rows, "debut")

DateRange(rows) == Max(1, MaxOrdinal(rows, "fin") - MinOrdinal(rows, "debut"))

\* the bar of row idx (lines 117-136): bx = bxN / den, bw = bwN / den
SvgBar(rows, idx, ml, dr, cats, cols) ==
    LET r  == rows[idx]
        so == Ordinal(r.debut) - MinOrdinal(rows, "debut")
        du == Ordinal(r.fin) - Ordinal(r.debut) + 1
    IN [ row    |-> idx,
         ry     |-> mt + (idx - 1) * (lh + bh + rs),
         so     |-> so,
         du     |-> du,
         den    |-> dr,
         bxN    |-> ml * dr + so * cw,
         bwN    |-> Max(MinBarWidth * dr, du * cw),
         col    |-> Lookup(cats, cols, r.categorie),
         marker |-> (idx = 1 \/ rows[idx - 1].categorie # r.categorie),
         label  |-> r.duree_jours ]

\* the legend entry of category i (lines 142-145), counted from 1
LegendEntry(cats, cols, i, ml, ly) ==
    [ categorie |-> cats[i], col |-> cols[i],
      xo |-> ml + ((i - 1) % 3) * 280,
      yo |-> ly + 18 + ((i - 1) \div 3) * 22 ]

generate_svg(rows) ==
    IF Len(rows) = 0 THEN [empty |-> TRUE]
    ELSE
    LET ml   == Min(500, Max(250, MaxNameLen(rows) * 8 + 50))
        n    == Len(rows)
        ch   == n * (lh + bh + rs)
        tw   == ml + cw + mr
        th   == mt + ch + mb
        dr   == DateRange(rows)
        cats == Categories(rows)
        cols == colors(Len(cats))
        ly   == mt + ch + 40
        all  == [i \in 1..Len(cats) |-> LegendEntry(cats, cols, i, ml, ly)]
    IN [ empty  |-> FALSE,
         ml     |-> ml,
         tw     |-> tw,
         th     |-> th,
         ch     |-> ch,
         dr     |-> dr,
         ng     |-> Min(10, Max(4, dr \div 30)),
         cats   |-> cats,
         cols   |-> cols,
         bars   |-> [idx \in 1..n |-> SvgBar(rows, idx, ml, dr, cats, cols)],
         legend |-> SelectSeq(all, LAMBDA e : e.yo < th - 10) ]

\* data[data['categorie'] == c].reset_index(drop=True)
RowsOf(rows, c) == SelectSeq(rows, LAMBDA r : r.categorie = c)

\* the most task rows a slide shows (line 221)
MaxSlideRows == 12

\* a head that keeps every row
head_all(cd, mx) == cd

\* cd.head(mx)
head(cd, mx) == SubSeq(cd, 1, Min(mx, Len(cd)))

\* bar i of a slide (lines 223-232): bx = bxN / (10 * den), bw = bwN / (100 * den)
PptxBar(rows, cd, i, dr, col) ==
    LET r  == cd[i]
        so == Ordinal(r.debut) - MinOrdinal(rows, "debut")
        du == Ordinal(r.fin) - Ordinal(r.debut) + 1
    IN [ tache |-> r.tache,
         debut |-> r.debut,
         fin   |-> r.fin,
         so    |-> so,
         du    |-> du,
         den   |-> dr,
         bxN   |-> 28 * dr + so * 65,
         bwN   |-> Max(15 * dr, du * 650),
         col   |-> col,
         label |-> r.duree_jours ]

\* slide ci + 3 of gen_pptx (lines 214-232), ci counted from 1 here
PptxSlide(rows, cats, cols, ci, dr) ==
    LET cd    == RowsOf(rows, cats[ci])
        col   == NoHash(cols[ci])
        mx    == Min(MaxSlideRows, Len(cd))
        top   == head(cd, mx)
    IN [ categorie |-> cats[ci],
         col       |-> col,
         count     |-> Len(cd),
         bars      |-> [i \in 1..Len(top) |-> PptxBar(rows, top, i, dr, col)] ]

gen_pptx(rows) ==
    LET cats == Categories(rows)
        cols == colors(Len(cats))
        dr   == DateRange(rows)
    IN [ cats   |-> cats,
         cols   |-> [i \in 1..Len(cats) |-> NoHash(cols[i])],
         dr     |-> dr,
         slides |-> [ci \in 1..Len(cats) |-> PptxSlide(rows, cats, cols, ci, dr)] ]

(***************************************************************************)
(* Scenario "draw": a TaskSet as load_data returns it is drawn by          *)
(* generate_svg and scripted by gen_pptx.                                  *)
(***************************************************************************)
MaxTasks  == 2
MaxCats   == 15
MaxPerCat == 13

Task(c, t, d, f) ==
    [categorie |-> c, tache |-> t, debut |-> d, fin |-> f,
     duree_jours |-> Ordinal(f) - Ordinal(d) + 1]

IsSorted(rows) ==
    \A k \in 1..(Len(rows) - 1) : ~KeyLess(rows[k + 1], rows[k])

\* every sorted TaskSet of at most MaxTasks tasks over two categories, two
\* names and three days
SmallDays == {Date(2025, 1, 1), Date(2025, 1, 5), Date(2025, 3, 1)}

SmallTasks ==
    { Task(c, t, d, f) : c \in {"A", "B"}, t \in {"T", "Recette fonctionnelle du lot"},
                         d \in SmallDays, f \in SmallDays }

SmallTaskSets ==
    { rows \in UNION { [1..n -> SmallTasks] : n \in 1..MaxTasks } : IsSorted(rows) }

\* n categories of one task each, but category c, which has k tasks: task j of
\* a category starts on 2025-01-j and lasts 1 to 3 days
WideCategory(i) == CodePointOrder[i + 3]

RECURSIVE WideRows(_, _, _, _)
WideRows(i, n, c, k) ==
    IF i > n THEN <<>>
    ELSE [j \in 1..(IF i = c THEN k ELSE 1) |->
             Task(WideCategory(i), "T", Date(2025, 1, j), Date(2025, 1, j + (i % 3)))]
         \o WideRows(i + 1, n, c, k)

WideTaskSets ==
    { WideRows(1, n, c, k) : n \in 1..MaxCats, c \in 1..MaxCats, k \in 1..MaxPerCat }

InitDraw ==
    /\ pc = "loaded"
    /\ data \in { Some(rows) : rows \in SmallTaskSets \cup WideTaskSets }
    /\ IdleDraw
    /\ df = [columns |-> <<>>, rows |-> <<>>] /\ err = Nothing /\ order = <<>>
    /\ IdleParse /\ IdleText /\ IdleNode

\* svg_cat of line 368: generate_svg on the rows of each category, in the
\* order of data['categorie'].unique()
SvgByCategory(rows) ==
    [i \in 1..Len(Categories(rows)) |->
        [ categorie |-> Categories(rows)[i],
          svg       |-> generate_svg(RowsOf(rows, Categories(rows)[i])) ]]

\* main, lines 368 and 379: the views of one render, the layout of each
\* category (embedded in the HTML report) and the global view
GenerateSvg ==
    /\ pc = "loaded"
    /\ svg_cat' = Some(SvgByCategory(data.val))
    /\ svg' = Some(generate_svg(data.val))
    /\ pc' = "svg"
    /\ UNCHANGED <<data, pptx, df, err, order, parseVars, textVars, nodeVars>>

\* main, line 384: the slide script
GenPptx ==
    /\ pc = "svg"
    /\ pptx' = Some(gen_pptx(data.val))
    /\ pc' = "pptx"
    /\ UNCHANGED <<data, svg, svg_cat, df, err, order, parseVars, textVars, nodeVars>>

\* The TaskSet with two neighbouring rows of one category exchanged: the same
\* tasks, re-ordered inside a category.
Swap(rows, k) == [rows EXCEPT ![k] = rows[k + 1], ![k + 1] = rows[k]]

Reorder ==
    /\ pc = "pptx"
    /\ \E k \in 1..(Len(data.val) - 1) :
          /\ data.val[k].categorie = data.val[k + 1].categorie
          /\ data' = Some(Swap(data.val, k))
    /\ pc' = "reordered"
    /\ UNCHANGED <<svg, svg_cat, pptx, df, err, order, parseVars, textVars, nodeVars>>

NextDraw == GenerateSvg \/ GenPptx \/ Reorder

SpecDraw == InitDraw /\ [][NextDraw]_vars

(***************************************************************************)
(* User text in the generated scripts.  A text is a sequence of characters *)
(* over: a letter, the double quote, the backslash, line feed, carriage    *)
(* return (and the apostrophe, which gen_pptx writes for a double quote).  *)
(***************************************************************************)
QUOTE     == "QUOTE"
BACKSLASH == "BACKSLASH"
LF        == "LF"
CR        == "CR"
APOS      == "APOS"

UserChars == {"a", QUOTE, BACKSLASH, LF, CR}

\* json.dumps(s) of a str: s between double quotes, with the double quote,
\* the backslash and the control characters escaped
JsonEscape(c) ==
    CASE c = QUOTE     -> <<BACKSLASH, QUOTE>>
      [] c = BACKSLASH -> <<BACKSLASH, BACKSLASH>>
      [] c = LF        -> <<BACKSLASH, "n">>
      [] c = CR        -> <<BACKSLASH, "r">>
      [] OTHER         -> <<c>>

RECURSIVE JsonBody(_)
JsonBody(t) == IF t = <<>> THEN <<>> ELSE JsonEscape(Head(t)) \o JsonBody(Tail(t))

json_dumps(t) == <<QUOTE>> \o JsonBody(t) \o <<QUOTE>>

\* str.replace(old, new) for a one-character old; new is a text
RECURSIVE Replace(_, _, _)
Replace(t, old, new) ==
    IF t = <<>> THEN <<>>
    ELSE (IF Head(t) = old THEN new ELSE <<Head(t)>>) \o Replace(Tail(t), old, new)

\* the length r['tache'] is cut to (line 229)
MaxNameChars == 35

\* tn of line 229: r['tache'][:35].replace('"', "'").replace('\\', '')
TaskLabel(t) ==
    Replace(Replace(SubSeq(t, 1, Min(MaxNameChars, Len(t))), QUOTE, <<APOS>>), BACKSLASH, <<>>)

\* "{tn}" of line 230: tn between double quotes
QuotedTaskLabel(t) == <<QUOTE>> \o TaskLabel(t) \o <<QUOTE>>

\* a place of a script where user text is written
Literal(site, text, chars) == [site |-> site, text |-> text, chars |-> chars]

\* the user text gen_pptx writes (lines 201, 210, 218, 230)
gen_pptx_literals(u) ==
    << Literal("s1.addText(title)",  u.title,     json_dumps(u.title)),
       Literal("t.push(categorie)",  u.categorie, json_dumps(u.categorie)),
       Literal("addText(categorie)", u.categorie, json_dumps(u.categorie)),
       Literal("addText(tache)",     u.tache,     QuotedTaskLabel(u.tache)) >>

\* the user text gen_docx writes (lines 251, 254, 272, 281, 292)
gen_docx_literals(u) ==
    << Literal("Header(title)",       u.title,     json_dumps(u.title)),
       Literal("Heading1(title)",     u.title,     json_dumps(u.title)),
       Literal("TableCell(categorie)", u.categorie, json_dumps(u.categorie)),
       Literal("Heading2(categorie)", u.categorie, json_dumps(u.categorie)),
       Literal("TableCell(tache)",    u.tache,     json_dumps(u.tache)) >>

(***************************************************************************)
(* Scenario "script": the scripts generated for one task and a title.      *)
(***************************************************************************)
MaxTextLen == 1
MaxTaskLen == 3

Texts(n) == UNION { [1..k -> UserChars] : k \in 0..n }

\* a task name load_data keeps (lines 62, 67): stripped of the whitespace
\* around it and not empty
IsTaskName(t) == t # <<>> /\ Head(t) \notin {LF, CR} /\ t[Len(t)] \notin {LF, CR}

InitScript ==
    /\ pc = "loaded"
    /\ user \in [title : Texts(MaxTextLen), categorie : Texts(MaxTextLen),
                  tache : { t \in Texts(MaxTaskLen) : IsTaskName(t) }]
    /\ js = Nothing
    /\ IdleParse /\ IdleLoad /\ IdleDraw /\ IdleNode

\* main, line 384
GenPptxScript ==
    /\ pc = "loaded"
    /\ js' = Some(gen_pptx_literals(user))
    /\ pc' = "pptx"
    /\ UNCHANGED <<user, parseVars, loadVars, drawVars, nodeVars>>

\* main, line 392
GenDocxScript ==
    /\ pc = "loaded"
    /\ js' = Some(gen_docx_literals(user))
    /\ pc' = "docx"
    /\ UNCHANGED <<user, parseVars, loadVars, drawVars, nodeVars>>

NextScript == GenPptxScript \/ GenDocxScript

SpecScript == InitScript /\ [][NextScript]_vars

(***************************************************************************)
(* run_node and the export buttons of main.  What the script says does not *)
(* matter to run_node: the node process is the environment, and may be     *)
(* missing, exit with any code, write the output file or not, or run on.   *)
(***************************************************************************)
\* timeout=60 of subprocess.run (line 310), in seconds
Timeout == 60

\* the bytes an output file can hold: none, or some
FileContents == { <<>>, <<80, 75, 3, 4>> }

\* the exceptions the try block of lines 309-315 can meet
Exceptions == {"FileNotFoundError", "TimeoutExpired", "OSError"}

\* the except clause of line 314: a bare except catches every exception
Caught_missing_node_only(exc) == exc = "FileNotFoundError"

Caught(exc) == exc \in Exceptions

\* an exception in the try block: except/pass and the return None of line 316,
\* or the exception leaves run_node
Except(exc) ==
    IF Caught(exc)
    THEN /\ ret' = Nothing
         /\ raised' = FALSE
         /\ pc' = "return"
    ELSE /\ ret' = Nothing
         /\ raised' = TRUE
         /\ pc' = "crashed"

\* bool(b) of a bytes value (lines 385, 393)
Truthy(r) == r.some /\ r.val # <<>>

Download(ext) == IF ext = "pptx" THEN "download PPTX" ELSE "download DOCX"
Warning(ext)  == IF ext = "pptx" THEN "Node.js requis pour PPTX" ELSE "Node.js requis pour DOCX"

(***************************************************************************)
(* Scenario "export": main renders the outputs, then an export button runs *)
(* run_node.                                                               *)
(***************************************************************************)
InitNode ==
    /\ pc = "loaded"
    /\ clicked = "none"
    /\ installed \in BOOLEAN
    /\ proc = NoProcess
    /\ elapsed = 0
    /\ ret = Nothing
    /\ raised = FALSE
    /\ shown = {}
    /\ IdleParse /\ IdleLoad /\ IdleDraw /\ IdleText

others == <<parseVars, loadVars, drawVars, textVars>>

\* main, lines 377-380: the CSV, SVG and HTML download buttons
RenderOutputs ==
    /\ pc = "loaded"
    /\ shown' = shown \cup {"CSV", "SVG", "HTML"}
    /\ pc' = "buttons"
    /\ UNCHANGED <<clicked, installed, proc, elapsed, ret, raised, others>>

\* main, lines 382 and 390: neither export button is pressed in this run
NoClick ==
    /\ pc = "buttons"
    /\ pc' = "done"
    /\ UNCHANGED <<nodeVars, others>>

\* main, lines 382-384 and 390-392: a button is pressed, run_node is called
Click ==
    /\ pc = "buttons"
    /\ clicked' \in {"pptx", "docx"}
    /\ pc' = "write"
    /\ UNCHANGED <<installed, proc, elapsed, ret, raised, shown, others>>

\* run_node, lines 304-308: the temporary directory and the script file
WriteScript ==
    /\ pc = "write"
    /\ pc' = "spawn"
    /\ UNCHANGED <<nodeVars, others>>

\* run_node, line 310: subprocess.run starts node, or finds no executable
Spawn ==
    /\ pc = "spawn"
    /\ IF installed
       THEN /\ proc' = [proc EXCEPT !.state = "running"]
            /\ pc' = "wait"
            /\ UNCHANGED <<ret, raised>>
       ELSE /\ proc' = [proc EXCEPT !.state = "missing"]
            /\ Except("FileNotFoundError")
    /\ UNCHANGED <<clicked, installed, elapsed, shown, others>>

\* a second passes while subprocess.run waits
Tick ==
    /\ pc = "wait"
    /\ elapsed < Timeout
    /\ elapsed' = elapsed + 1
    /\ UNCHANGED <<pc, clicked, installed, proc, ret, raised, shown, others>>

\* the process ends before the timeout, with some exit code, having written
\* the output file or not
Exit ==
    /\ pc = "wait"
    /\ elapsed < Timeout
    /\ \E rc \in {0, 1}, file \in {Nothing} \cup { Some(b) : b \in FileContents } :
          proc' = [state |-> "exited", rc |-> rc, file |-> file]
    /\ pc' = "check"
    /\ UNCHANGED <<clicked, installed, elapsed, ret, raised, shown, others>>

\* the timeout passes: subprocess.run kills the process and raises
TimeoutExpired ==
    /\ pc = "wait"
    /\ elapsed = Timeout
    /\ proc' = [proc EXCEPT !.state = "killed"]
    /\ Except("TimeoutExpired")
    /\ UNCHANGED <<clicked, installed, elapsed, shown, others>>

\* run_node, line 311, and the fall through to line 316
CheckResult ==
    /\ pc = "check"
    /\ IF proc.rc = 0 /\ proc.file.some
       THEN pc' = "read" /\ UNCHANGED ret
       ELSE pc' = "return" /\ ret' = Nothing
    /\ UNCHANGED <<clicked, installed, proc, elapsed, raised, shown, others>>

\* run_node, lines 312-313: the output file is read and returned
ReadOutput ==
    /\ pc = "read"
    /\ ret' = Some(proc.file.val)
    /\ pc' = "return"
    /\ UNCHANGED <<clicked, installed, proc, elapsed, raised, shown, others>>

\* run_node, lines 312-313: reading the output file fails
ReadFails ==
    /\ pc = "read"
    /\ Except("OSError")
    /\ UNCHANGED <<clicked, installed, proc, elapsed, shown, others>>

\* main, lines 385-388 and 393-396: the download button, or the warning
ShowResult ==
    /\ pc = "return"
    /\ shown' = shown \cup { IF Truthy(ret) THEN Download(clicked) ELSE Warning(clicked) }
    /\ pc' = "done"
    /\ UNCHANGED <<clicked, installed, proc, elapsed, ret, raised, others>>

NextNode ==
    \/ RenderOutputs \/ NoClick \/ Click \/ WriteScript \/ Spawn \/ Tick \/ Exit
    \/ TimeoutExpired \/ CheckResult \/ ReadOutput \/ ReadFails \/ ShowResult

SpecNode == InitNode /\ [][NextNode]_vars

(***************************************************************************)
(* Properties of load_data.  In the "load" scenario the table's columns    *)
(* are category, task, start, end in this order.                           *)
(***************************************************************************)
Loaded == pc = "loaded"

RawDebut(i) == ApplyParseDate[df.rows[i][3]]
RawFin(i)   == ApplyParseDate[df.rows[i][4]]
RawTache(i) == StripStr(AsStr(df.rows[i][2]))
RawCategorie(i) == StripStr(AsStr(df.rows[i][1]))

\* row i of the raw table passes the filters of lines 66-67
RowValid(i) ==
    /\ RawDebut(i).some /\ RawFin(i).some
    /\ RawTache(i) # "" /\ RawTache(i) # "nan"

\* row i of the raw table ends before it starts
RowInverted(i) ==
    /\ RawDebut(i).some /\ RawFin(i).some
    /\ Ordinal(RawFin(i).val) < Ordinal(RawDebut(i).val)

\* C1: every row of the TaskSet load_data returns has debut <= fin and
\* duree_jours = (fin - debut).days + 1 >= 1; a raw row that ends before it
\* starts is not in the TaskSet, and a table holding only such a row gives the
\* 'no valid rows' failure.
C1_DurationInvariant ==
    Loaded =>
       /\ data.some =>
            \A k \in 1..Len(data.val) :
               /\ Ordinal(data.val[k].debut) <= Ordinal(data.val[k].fin)
               /\ data.val[k].duree_jours
                    = Ordinal(data.val[k].fin) - Ordinal(data.val[k].debut) + 1
               /\ data.val[k].duree_jours >= 1
       /\ \A i \in 1..Len(df.rows) : RowInverted(i) => i \notin { order[k] : k \in 1..Len(order) }
       /\ (Len(df.rows) = 1 /\ RowInverted(1)) => (data = Nothing /\ err = Some(MsgNoData))

\* C3: invalid rows are excluded one by one, the valid rows are still loaded;
\* when no row of a table is valid the result is the error "Aucune donnée
\* valide", also when the dates of every row are unparseable.
C3_NoValidRows ==
    (Loaded /\ Len(df.rows) >= 1) =>
       /\ (\E i \in 1..Len(df.rows) : RowValid(i)) =>
             /\ data.some
             /\ { order[k] : k \in 1..Len(order) } = { i \in 1..Len(df.rows) : RowValid(i) }
       /\ (\A i \in 1..Len(df.rows) : ~RowValid(i)) =>
             /\ data = Nothing
             /\ err = Some(MsgNoData)

\* C4: the TaskSet load_data returns is sorted by (categorie, debut), rows with
\* equal (categorie, debut) keep the order of the raw table, and the TaskSet is
\* a permutation of the rows that passed the filters.
C4_SortedStablePermutation ==
    (Loaded /\ data.some) =>
       LET rows == data.val IN
       /\ \A k \in 1..(Len(rows) - 1) :
             \/ StrLess(rows[k].categorie, rows[k + 1].categorie)
             \/ /\ rows[k].categorie = rows[k + 1].categorie
                /\ Ordinal(rows[k].debut) <= Ordinal(rows[k + 1].debut)
       /\ \A j, k \in 1..Len(rows) :
             (j < k /\ rows[j].categorie = rows[k].categorie /\ rows[j].debut = rows[k].debut)
                => order[j] < order[k]
       /\ Len(order) = Len(rows)
       /\ \A j, k \in 1..Len(order) : j # k => order[j] # order[k]
       /\ { order[k] : k \in 1..Len(order) } = { i \in 1..Len(df.rows) : RowValid(i) }
       /\ \A k \in 1..Len(rows) :
             /\ rows[k].categorie = RawCategorie(order[k])
             /\ rows[k].tache = RawTache(order[k])
             /\ rows[k].debut = RawDebut(order[k]).val
             /\ rows[k].fin = RawFin(order[k]).val

\* a load whose sort moved a row: the second raw row comes first
C4_Witness ==
    /\ Loaded /\ data.some
    /\ Len(data.val) = 2
    /\ order = <<2, 1>>
    /\ data.val[1].categorie = "A" /\ data.val[2].categorie = "B"

\* a load whose two rows have the same (categorie, debut)
C4_TieReached ==
    /\ Loaded /\ data.some
    /\ Len(data.val) = 2
    /\ data.val[1].categorie = data.val[2].categorie
    /\ data.val[1].debut = data.val[2].debut
    /\ data.val[1].fin # data.val[2].fin

(***************************************************************************)
(* Properties of the column resolution ("resolve" scenario).               *)
(***************************************************************************)
SynonymsOf(k) ==
    CASE k = "categorie" -> SynCategorie
      [] k = "tache"     -> SynTache
      [] k = "debut"     -> SynDebut
      [] k = "fin"       -> SynFin

\* no header of the table is a synonym of logical field k
Unmatched(k) ==
    \A i \in 1..Len(df.columns) : \A n \in 1..Len(SynonymsOf(k)) :
        LowerStrip(df.columns[i]) # SynonymsOf(k)[n]

Mentions(msg, word) == \E i \in 1..Len(msg.args) : msg.args[i] = word

\* C2: when a logical field is left unmatched, load_data returns no TaskSet
\* and an error that names every missing field and lists every header of the
\* table.
C2_ResolutionError ==
    (Loaded /\ \E k \in {"categorie", "tache", "debut", "fin"} : Unmatched(k)) =>
       /\ data = Nothing
       /\ err.some
       /\ \A k \in {"categorie", "tache", "debut", "fin"} : Unmatched(k) => Mentions(err.val, k)
       /\ \A i \in 1..Len(df.columns) : Mentions(err.val, df.columns[i])

\* the part of C2 the code keeps: no TaskSet, and every missing field named
C2_MissingNamed ==
    (Loaded /\ \E k \in {"categorie", "tache", "debut", "fin"} : Unmatched(k)) =>
       /\ data = Nothing
       /\ err.some
       /\ \A k \in {"categorie", "tache", "debut", "fin"} : Unmatched(k) <=> Mentions(err.val, k)

(***************************************************************************)
(* Properties of parse_date ("parse" scenario).                            *)
(***************************************************************************)
\* C5: a date written in any of the six formats, with or without whitespace
\* around it, parses to that date; a cell that is neither text nor a datetime
\* gives None.
C5_RoundTrip ==
    pc = "parsed" =>
       /\ cal.some => parsed = Some(cal.val.d)
       /\ date_val.type \notin {"str", "datetime"} => parsed = Nothing

\* the five formats of line 35 do round-trip
C5_FiveFormats ==
    (pc = "parsed" /\ cal.some /\ cal.val.fmt <= Len(ParseFormats)) => parsed = Some(cal.val.d)

(***************************************************************************)
(* Properties of generate_svg and gen_pptx ("draw" scenario).              *)
(***************************************************************************)
\* the rows of data are those svg and pptx were made from
Drawn == pc \in {"svg", "pptx"} /\ svg.some

Scripted == pc = "pptx" /\ pptx.some

SingleDay == Len(data.val) = 1 /\ data.val[1].debut = data.val[1].fin

\* C6 as stated: for a single task with start = end the duration is 1 day, the
\* span is taken as 1 day and the bar is as wide as the minimum bar width (8).
C6_SingleDayMinWidth ==
    (Drawn /\ SingleDay) =>
       /\ data.val[1].duree_jours = 1
       /\ svg.val.dr = 1
       /\ svg.val.bars[1].bwN = MinBarWidth * svg.val.bars[1].den

\* C6 amended: for a single task with start = end the duration is 1 day, the
\* span is taken as 1 day (never 0) and the bar is max(8, 1 / 1 * 800) = 800
\* wide, the whole chart width.
C6_SingleDayFullWidth ==
    (Drawn /\ SingleDay) =>
       /\ data.val[1].duree_jours = 1
       /\ svg.val.dr = 1
       /\ svg.val.bars[1].den = 1
       /\ svg.val.bars[1].bwN = cw * svg.val.bars[1].den
       /\ svg.val.bars[1].bwN > MinBarWidth * svg.val.bars[1].den

C6_Witness == Drawn /\ SingleDay /\ Len(svg.val.bars) = 1

CategorySet(rows) == { rows[k].categorie : k \in 1..Len(rows) }

\* the positions in data of the tasks of category c, in order
PositionsOf(rows, c) == { k \in 1..Len(rows) : rows[k].categorie = c }

\* the position in data of the i-th task of category c
NthOf(rows, c, i) ==
    CHOOSE k \in PositionsOf(rows, c) :
        Cardinality({ j \in PositionsOf(rows, c) : j <= k }) = i

SvgOneBarPerTask ==
    Drawn =>
       /\ Len(svg.val.bars) = Len(data.val)
       /\ \A k \in 1..Len(data.val) :
             /\ svg.val.bars[k].row = k
             /\ svg.val.bars[k].du = Ordinal(data.val[k].fin) - Ordinal(data.val[k].debut) + 1
             /\ svg.val.bars[k].label = data.val[k].duree_jours

\* the slides are one per category, and the bars of a slide are, in order, the
\* first n tasks of its category, n given by Shown(number of tasks)
SlideBars(Shown(_)) ==
    Scripted =>
       /\ { pptx.val.slides[s].categorie : s \in 1..Len(pptx.val.slides) } = CategorySet(data.val)
       /\ Len(pptx.val.slides) = Cardinality(CategorySet(data.val))
       /\ \A s \in 1..Len(pptx.val.slides) :
             LET sl == pptx.val.slides[s]
                 nc == Cardinality(PositionsOf(data.val, sl.categorie))
             IN /\ Len(sl.bars) = Shown(nc)
                /\ \A i \in 1..Len(sl.bars) :
                      LET r == data.val[NthOf(data.val, sl.categorie, i)]
                      IN /\ sl.bars[i].tache = r.tache
                         /\ sl.bars[i].debut = r.debut
                         /\ sl.bars[i].fin = r.fin

AllOf(n) == n

FirstTwelve(n) == IF n <= 12 THEN n ELSE 12

\* C7 as stated: generate_svg emits exactly one bar per task, and gen_pptx
\* exactly one bar per task on the slide of the task's category, however many
\* tasks a category has.
C7_OneBarPerTask == SvgOneBarPerTask /\ SlideBars(AllOf)

\* C7 amended: generate_svg emits exactly one bar per task; gen_pptx emits, on
\* the slide of a category, one bar for each of the first 12 tasks of the
\* category in TaskSet order, and none for its later tasks.
C7_OneBarPerShownTask == SvgOneBarPerTask /\ SlideBars(FirstTwelve)

\* a category of 13 tasks whose slide shows 12 bars
C7_Witness ==
    /\ Scripted
    /\ \E s \in 1..Len(pptx.val.slides) :
          /\ Cardinality(PositionsOf(data.val, pptx.val.slides[s].categorie)) = 13
          /\ Len(pptx.val.slides[s].bars) = 12
    /\ Len(svg.val.bars) = Len(data.val)

\* the number of distinct categories seen before the first row of category c
FirstSeenIndex(rows, c) ==
    LET first == CHOOSE k \in PositionsOf(rows, c) : \A j \in PositionsOf(rows, c) : k <= j
    IN Cardinality({ rows[j].categorie : j \in 1..(first - 1) })

\* C10: in generate_svg and in gen_pptx the category at first-seen index i has
\* colour palette[i mod 10]; two categories share a colour exactly when their
\* indices are congruent modulo 10 (with 15 categories the 11th to 15th reuse
\* the colours of the 1st to 5th); re-ordering rows inside a category changes
\* no category's colour.
C10_CyclicPalette ==
    /\ svg.some =>
          /\ \A c \in CategorySet(data.val) :
                Lookup(svg.val.cats, svg.val.cols, c)
                   = Hash(PaletteHex[(FirstSeenIndex(data.val, c) % 10) + 1])
          /\ \A c1, c2 \in CategorySet(data.val) :
                (Lookup(svg.val.cats, svg.val.cols, c1) = Lookup(svg.val.cats, svg.val.cols, c2))
                   <=> (FirstSeenIndex(data.val, c1) % 10 = FirstSeenIndex(data.val, c2) % 10)
          /\ Drawn => \A k \in 1..Len(data.val) :
                svg.val.bars[k].col = Lookup(svg.val.cats, svg.val.cols, data.val[k].categorie)
          /\ Len(svg.val.cats) = 15 =>
                \A i \in 1..5 : svg.val.cols[10 + i] = svg.val.cols[i]
    /\ pptx.some =>
          /\ \A s \in 1..Len(pptx.val.slides) :
                LET sl == pptx.val.slides[s]
                    expected == [hash |-> FALSE,
                                 hex |-> PaletteHex[(FirstSeenIndex(data.val, sl.categorie) % 10) + 1]]
                IN /\ sl.col = expected
                   /\ \A i \in 1..Len(sl.bars) : sl.bars[i].col = expected
          /\ \A c \in CategorySet(data.val) :
                Lookup(pptx.val.cats, pptx.val.cols, c).hex = Lookup(svg.val.cats, svg.val.cols, c).hex

\* 15 categories drawn and scripted, then rows re-ordered inside a category
C10_Witness ==
    /\ pc = "reordered"
    /\ svg.some /\ pptx.some
    /\ Cardinality(CategorySet(data.val)) = 15
    /\ svg.val.cols[11] = svg.val.cols[1]
    /\ svg.val.cols[15] = svg.val.cols[5]

\* the legend entry generate_svg is to draw for the category at first-seen
\* index i (from 0): column i mod 3 and row i div 3 of the grid under the chart
GridEntry(i) ==
    [ categorie |-> svg.val.cats[i + 1],
      col       |-> svg.val.cols[i + 1],
      xo        |-> svg.val.ml + (i % 3) * 280,
      yo        |-> mt + svg.val.ch + 40 + 18 + (i \div 3) * 22 ]

LegendShows(i) == \E k \in 1..Len(svg.val.legend) : svg.val.legend[k] = GridEntry(i)

\* C11: generate_svg emits one legend entry per distinct category in
\* first-seen order, entry i at column i mod 3 and row i div 3 of the grid;
\* an entry is left out only when its yo is at or beyond th - 10, and the
\* legend area holds more than one row, so a TaskSet of 4 to 10 distinct
\* categories has a legend entry for every category.
C11_LegendEveryCategory ==
    Drawn =>
       /\ \A i \in 0..(Len(svg.val.cats) - 1) :
             ~LegendShows(i) => GridEntry(i).yo >= svg.val.th - 10
       /\ \A k \in 1..(Len(svg.val.legend) - 1) :
             FirstSeenIndex(data.val, svg.val.legend[k].categorie)
                < FirstSeenIndex(data.val, svg.val.legend[k + 1].categorie)
       /\ Len(svg.val.cats) \in 4..10 =>
             /\ Len(svg.val.legend) = Len(svg.val.cats)
             /\ \A i \in 0..(Len(svg.val.cats) - 1) : LegendShows(i)

\* what generate_svg does: the legend is the first row of the grid only, the
\* entries of the first three categories, whatever the number of categories
C11_LegendFirstRowOnly ==
    Drawn =>
       /\ Len(svg.val.legend) = Min(3, Len(svg.val.cats))
       /\ \A i \in 0..(Len(svg.val.legend) - 1) : svg.val.legend[i + 1] = GridEntry(i)
       /\ \A i \in 3..(Len(svg.val.cats) - 1) :
             ~LegendShows(i) /\ GridEntry(i).yo >= svg.val.th - 10

\* the layout main made of the rows of category c alone
ViewOf(c) == svg_cat.val[CHOOSE i \in 1..Len(svg_cat.val) : svg_cat.val[i].categorie = c].svg

\* the colour of category c in a layout of generate_svg, without its "#"
SvgColour(view, c) == Lookup(view.cats, view.cols, c).hex

\* C12: a category is drawn in the same colour in every view of one render of
\* main: its colour in the global SVG equals its colour in the SVG of its own
\* rows (as embedded in the HTML report) and in the slide script of gen_pptx.
C12_SameColourEveryView ==
    (Drawn /\ svg_cat.some) =>
       \A c \in CategorySet(data.val) :
          /\ SvgColour(svg.val, c) = SvgColour(ViewOf(c), c)
          /\ \A k \in 1..Len(ViewOf(c).bars) :
                ViewOf(c).bars[k].col = Lookup(svg.val.cats, svg.val.cols, c)
          /\ pptx.some =>
                Lookup(pptx.val.cats, pptx.val.cols, c).hex = SvgColour(svg.val, c)

\* what the code does: the global SVG and the slides agree, and the SVG of a
\* category's own rows is always in the first colour of the palette
C12_OwnViewFirstColour ==
    (Drawn /\ svg_cat.some) =>
       \A c \in CategorySet(data.val) :
          /\ SvgColour(ViewOf(c), c) = PaletteHex[1]
          /\ Len(ViewOf(c).bars) = Cardinality(PositionsOf(data.val, c))
          /\ \A k \in 1..Len(ViewOf(c).bars) : ViewOf(c).bars[k].col = Hash(PaletteHex[1])
          /\ pptx.some =>
                Lookup(pptx.val.cats, pptx.val.cols, c).hex = SvgColour(svg.val, c)

\* C13: every bar generate_svg draws lies inside the chart body, the rectangle
\* of width cw = 800 that starts at ml: bx >= ml and bx + bw <= ml + cw, the
\* task that ends on the latest end date included.
C13_BarsInsideChart ==
    Drawn =>
       \A k \in 1..Len(svg.val.bars) :
          LET b == svg.val.bars[k]
          IN /\ b.bxN >= svg.val.ml * b.den
             /\ b.bxN + b.bwN <= (svg.val.ml + cw) * b.den

\* what the code does: no bar starts left of the chart body, and when the set
\* spans at least one day, the bar of a task that ends on the latest end date
\* (and starts no later than it ends) passes the right edge by cw / dr
C13_LastBarOverflows ==
    Drawn =>
       \A k \in 1..Len(svg.val.bars) :
          LET b == svg.val.bars[k]
              r == data.val[k]
          IN /\ b.bxN >= svg.val.ml * b.den
             /\ ( /\ MaxOrdinal(data.val, "fin") - MinOrdinal(data.val, "debut") >= 1
                  /\ Ordinal(r.fin) = MaxOrdinal(data.val, "fin")
                  /\ Ordinal(r.debut) <= Ordinal(r.fin) )
                => b.bxN + b.bwN = (svg.val.ml + cw) * b.den + cw

(***************************************************************************)
(* Properties of the generated scripts ("script" scenario).                *)
(***************************************************************************)
\* The JavaScript scanner on a double-quoted string literal that opens at
\* chars[1]: the position of the quote that closes it, or 0 when a line
\* terminator or the end of the text comes first.  A backslash takes the next
\* character with it.
RECURSIVE LiteralEnd(_, _)
LiteralEnd(chars, p) ==
    IF p > Len(chars) THEN 0
    ELSE IF chars[p] = QUOTE THEN p
    ELSE IF chars[p] \in {LF, CR} THEN 0
    ELSE IF chars[p] = BACKSLASH
         THEN (IF p + 1 > Len(chars) THEN 0 ELSE LiteralEnd(chars, p + 2))
    ELSE LiteralEnd(chars, p + 1)

\* the written characters are exactly one string literal
WellQuoted(chars) ==
    /\ Len(chars) >= 2
    /\ chars[1] = QUOTE
    /\ LiteralEnd(chars, 2) = Len(chars)

\* C8: every task name, category and title is written by gen_pptx and gen_docx
\* as one properly terminated and escaped string literal.
C8_SafeLiterals ==
    js.some => \A i \in 1..Len(js.val) : WellQuoted(js.val[i].chars)

\* what holds of the code: every literal gen_docx writes, and the title and
\* category literals gen_pptx writes, are well quoted
C8_JsonLiteralsSafe ==
    js.some => \A i \in 1..Len(js.val) :
                  js.val[i].site # "addText(tache)" => WellQuoted(js.val[i].chars)

(***************************************************************************)
(* Properties of run_node and main ("export" scenario).                    *)
(***************************************************************************)
Returned == pc \in {"return", "done"} /\ clicked # "none"

NodeFailed ==
    \/ proc.state = "missing"
    \/ proc.state = "killed"
    \/ proc.state = "exited" /\ (proc.rc # 0 \/ ~proc.file.some)

\* C9: run_node always ends with a value and no exception leaves it; it
\* returns the output file's bytes only when node exited with code 0 and the
\* file exists; when node is missing, exits non-zero, writes no file or passes
\* the 60 second timeout it returns None, main shows the warning, and the CSV,
\* SVG and HTML outputs stay on the page.
C9_RunNodeRecovers ==
    /\ ~raised /\ pc # "crashed"
    /\ elapsed <= Timeout
    /\ pc # "done" => ENABLED NextNode
    /\ ret.some => /\ proc.state = "exited" /\ proc.rc = 0 /\ proc.file.some
                   /\ ret.val = proc.file.val
    /\ (Returned /\ NodeFailed) => ret = Nothing
    /\ (pc = "done" /\ clicked # "none" /\ ret = Nothing) => Warning(clicked) \in shown
    /\ (pc = "done" /\ clicked # "none" /\ Warning(clicked) \notin shown) =>
          (Truthy(ret) /\ Download(clicked) \in shown)
    /\ pc # "loaded" => {"CSV", "SVG", "HTML"} \subseteq shown

\* node ran into the timeout, run_node returned None and main showed the warning
C9_Witness ==
    /\ pc = "done"
    /\ proc.state = "killed"
    /\ elapsed = Timeout
    /\ ret = Nothing
    /\ Warning(clicked) \in shown
    /\ {"CSV", "SVG", "HTML"} \subseteq shown

====
